---------------------------- MODULE Spec2Model ----------------------------
(***************************************************************************)
(* The log segment manager of cask (src/src/log.rs): one active segment,   *)
(* sealed segments, hint files with a trailing checksum, and the start-up  *)
(* recovery that replays them.  Files are byte sequences; a file handle is *)
(* a file id plus a position.                                              *)
(*                                                                         *)
(* data.rs (Entry/Hint codec), util.rs (xxhash32, get_file_handle) and     *)
(* cask.rs (the index and the recovery loop) are not among the sources;    *)
(* their definitions below follow the specification's sections 4.2, 4.3.   *)
(***************************************************************************)
EXTENDS Integers, Sequences, FiniteSets, TLC

(***************************************************************************)
(* Bounds of the model.                                                    *)
(***************************************************************************)
MaxTime == 1
MaxWrites == 2
MaxOpens == 2
MaxFaults == 1
MaxSegEntries == 2
MaxFailedOpens == 1

\* Log.size_threshold (DEFAULT_SIZE_THRESHOLD, 100 MiB in the source), scaled
\* so that two entries fill a segment.
DEFAULT_SIZE_THRESHOLD == 32

Keys == { <<1>> }
Values == { <<7>>, <<8, 9>> }
SegIds == 0..MaxTime

None == [none |-> TRUE]

(***************************************************************************)
(* Bytes and little-endian integers (byteorder::LittleEndian).             *)
(***************************************************************************)
\* The numbers of the model stay below 2^24: bytes 4 and up of an encoded
\* integer are zero, and a decoded integer with one of them set reads as
\* 2^24, larger than any length or offset of the model.
LE(n, w) ==
    [i \in 1..w |-> CASE i = 1 -> n % 256
                      [] i = 2 -> (n \div 256) % 256
                      [] i = 3 -> (n \div 65536) % 256
                      [] OTHER -> 0]

FromLE(bytes) ==
    IF \E i \in 4..Len(bytes) : bytes[i] # 0 THEN 16777216
    ELSE (IF Len(bytes) >= 1 THEN bytes[1] ELSE 0)
         + (IF Len(bytes) >= 2 THEN 256 * bytes[2] ELSE 0)
         + (IF Len(bytes) >= 3 THEN 65536 * bytes[3] ELSE 0)

Zeros(n) == [i \in 1..n |-> 0]

Drop(s, n) == SubSeq(s, n + 1, Len(s))
Take(s, n) == SubSeq(s, 1, n)

\* write(2) through a handle at position pos: bytes past the end extend the
\* file (a hole reads as zeros), bytes inside it are overwritten.
WriteAt(content, pos, bytes) ==
    LET padded == IF Len(content) < pos
                  THEN content \o Zeros(pos - Len(content)) ELSE content
    IN  Take(padded, pos) \o bytes \o Drop(padded, pos + Len(bytes))

(***************************************************************************)
(* util.rs: the 32-bit checksum, one-shot and incremental.  A u32 is kept  *)
(* as its two 16-bit halves <<lo, hi>>.                                    *)
(***************************************************************************)
XxHash32New == << 1, 0 >>

HashByte(h, b) ==
    LET lo == (h[1] + b + 1) % 65536
    IN  << lo, (h[2] + lo) % 65536 >>

\* the sum of f[a] .. f[b], by halving
RECURSIVE SumRange(_, _, _)
SumRange(f, a, b) ==
    IF a > b THEN 0
    ELSE IF a = b THEN f[a]
    ELSE LET m == (a + b) \div 2
         IN  SumRange(f, a, m) + SumRange(f, m + 1, b)

\* XxHash32::write: HashByte folded over the bytes in order, in closed form:
\*   lo' = lo + sum of (b_i + 1),   hi' = hi + sum of every intermediate lo
HashWrite(h, bytes) ==
    LET m == Len(bytes)
        plain == SumRange(bytes, 1, m)
        weighted == SumRange([i \in 1..m |-> (m + 1 - i) * bytes[i]], 1, m)
    IN  << (h[1] + m + plain) % 65536,
           (h[2] + m * h[1] + (m * (m + 1)) \div 2 + weighted) % 65536 >>

xxhash32(buf) == HashWrite(XxHash32New, buf)

write_u32(u) == LE(u[1], 2) \o LE(u[2], 2)
read_u32(b) == << FromLE(Take(b, 2)), FromLE(Drop(b, 2)) >>

(***************************************************************************)
(* data.rs: Entry and Hint and their encodings.                            *)
(*   Entry: checksum(4) timestamp(4) key_size(2) value_size(4) key value   *)
(*   Hint:  timestamp(4) key_size(2) value_size(4) entry_pos(8) key        *)
(* A tombstone has value_size = 0xFFFFFFFF and no value bytes.             *)
(***************************************************************************)
ENTRY_STATIC_SIZE == 14
HINT_STATIC_SIZE == 18
Tombstone == << 255, 255, 255, 255 >>

Entry(k, v, del, ts) == [key |-> k, value |-> v, deleted |-> del, timestamp |-> ts]

ValueSizeBytes(del, n) == IF del THEN Tombstone ELSE LE(n, 4)

EntryBody(e) ==
    LE(e.timestamp, 4) \o LE(Len(e.key), 2)
        \o ValueSizeBytes(e.deleted, Len(e.value)) \o e.key \o e.value

EntryBytes(e) == write_u32(xxhash32(EntryBody(e))) \o EntryBody(e)

EntrySize(e) == ENTRY_STATIC_SIZE + Len(e.key) + Len(e.value)

\* Entry::from_read on a reader holding `bytes`: the decoded entry, or
\* ok = FALSE when the bytes run out or the checksum does not validate.
EntryFromRead(bytes) ==
    IF Len(bytes) < ENTRY_STATIC_SIZE THEN [ok |-> FALSE]
    ELSE LET ts  == FromLE(SubSeq(bytes, 5, 8))
             ks  == FromLE(SubSeq(bytes, 9, 10))
             vsb == SubSeq(bytes, 11, 14)
             del == vsb = Tombstone
             vs  == IF del THEN 0 ELSE FromLE(vsb)
             tot == ENTRY_STATIC_SIZE + ks + vs
         IN  IF Len(bytes) < tot THEN [ok |-> FALSE]
             ELSE IF xxhash32(SubSeq(bytes, 5, tot)) # read_u32(Take(bytes, 4))
             THEN [ok |-> FALSE]
             ELSE [ok |-> TRUE,
                   entry |-> Entry(SubSeq(bytes, 15, 14 + ks),
                                   SubSeq(bytes, 15 + ks, tot), del, ts)]

\* Hint::new(&entry, entry_pos) and Hint::from(entry, entry_pos).
HintNew(e, pos) ==
    [timestamp |-> e.timestamp, key |-> e.key, deleted |-> e.deleted,
     value_size |-> Len(e.value), entry_pos |-> pos]

HintBytes(h) ==
    LE(h.timestamp, 4) \o LE(Len(h.key), 2)
        \o ValueSizeBytes(h.deleted, h.value_size) \o LE(h.entry_pos, 8) \o h.key

HintSize(h) == HINT_STATIC_SIZE + Len(h.key)

\* Hint::from_read on a reader holding `bytes`.
HintFromRead(bytes) ==
    IF Len(bytes) < HINT_STATIC_SIZE THEN [ok |-> FALSE]
    ELSE LET ks  == FromLE(SubSeq(bytes, 5, 6))
             vsb == SubSeq(bytes, 7, 10)
             del == vsb = Tombstone
         IN  IF Len(bytes) < HINT_STATIC_SIZE + ks THEN [ok |-> FALSE]
             ELSE [ok |-> TRUE,
                   hint |-> [timestamp |-> FromLE(Take(bytes, 4)),
                             key |-> SubSeq(bytes, 19, 18 + ks),
                             deleted |-> del,
                             value_size |-> IF del THEN 0 ELSE FromLE(vsb),
                             entry_pos |-> FromLE(SubSeq(bytes, 11, 18))]]


\* what a sequence of decoded records ends with when the next from_read fails
Undecodable == [undecodable |-> TRUE]

\* Hint::from_read until the reader is empty
RECURSIVE DecodeHints(_)
DecodeHints(bytes) ==
    IF bytes = << >> THEN << >>
    ELSE LET r == HintFromRead(bytes)
         IN  IF ~r.ok THEN << Undecodable >>
             ELSE << r.hint >> \o DecodeHints(Drop(bytes, HintSize(r.hint)))

\* Entry::from_read until the reader is empty
RECURSIVE DecodeEntries(_)
DecodeEntries(bytes) ==
    IF bytes = << >> THEN << >>
    ELSE LET r == EntryFromRead(bytes)
         IN  IF ~r.ok THEN << Undecodable >>
             ELSE << r.entry >> \o DecodeEntries(Drop(bytes, EntrySize(r.entry)))

(***************************************************************************)
(* The state.                                                              *)
(***************************************************************************)
VARIABLES
    now,              \* the wall clock, in whole seconds (time::now())
    dataFiles,        \* <id>.cask.data : id -> bytes, for the files that exist
    hintFiles,        \* <id>.cask.hint : id -> bytes, for the files that exist
    synced,           \* id -> how many leading bytes of the data file are on stable storage
    pc,               \* "closed" | "open" | "unwinding" | "dropping"
    sync,             \* Log.sync: the sync-on-write flag the directory is opened with
    files,            \* Log.files
    current_file_id,  \* Log.current_file_id
    data_pos,         \* position of the handle Log.active_data_file
    hint_pos,         \* position of the handle Log.active_hint_file
    hasher,           \* Log.active_hint_file_hasher
    todo,             \* recovery loop: the ids of log.files() still to replay
    rh,               \* the RecreateHints iterator in use, or None
    index,            \* the in-memory index: key -> location, or None
    recovered,        \* history: the <<file id, hint>> pairs the recovery replayed
    acked,            \* history: every write_entry that returned, in order
    ackedAtOpen,      \* history: Len(acked) when the Log was opened
    live,             \* history: id -> hints write_entry wrote since the segment was created
    lastRebuild,      \* history: the last RecreateHints dropped since open, or None
    damage,           \* history: hint files damaged on disk and not rewritten since
    tornDown,         \* history: a Drop for Log has run
    collided,         \* history: a segment was created under an id that was in use
    opens,            \* number of Log::open calls
    faults,           \* number of disk faults
    lock,             \* the exclusive lock on cask.lock is held
    holders,          \* number of Log values alive on the directory
    failed_opens,     \* number of Log::open calls that died at the lock
    lastEnd,          \* history: how the last session ended: "none" | "drop" | "crash" | "abort"
    lastActive,       \* history: the active segment of the session that ended last
    crashed,          \* history: a session was cut by a crash
    reader            \* an Entries iterator held by the caller of entries(), or None

logVars == << sync, files, current_file_id, data_pos, hint_pos, hasher >>
diskVars == << dataFiles, hintFiles, synced >>
cursorVars == << todo, rh, index, recovered >>
histVars == << acked, ackedAtOpen, live, lastRebuild, damage, tornDown, collided >>
lockVars == << lock, holders, failed_opens >>
endVars == << lastEnd, lastActive, crashed >>
vars == << now, dataFiles, hintFiles, synced, pc, sync, files, current_file_id,
           data_pos, hint_pos, hasher, todo, rh, index, recovered, acked,
           ackedAtOpen, live, lastRebuild, damage, tornDown, collided, opens,
           faults, lock, holders, failed_opens, lastEnd, lastActive, crashed,
           reader >>

Some(x) == [none |-> FALSE, val |-> x]
IsSome(o) == ~o.none

RECURSIVE SortedSeq(_)
SortedSeq(S) ==
    IF S = {} THEN << >>
    ELSE LET m == CHOOSE x \in S : \A y \in S : x <= y
         IN  << m >> \o SortedSeq(S \ {m})

\* get_file_handle(path, true): create the file, or truncate it when it exists.
CreateFile(fs, id) == [i \in DOMAIN fs \cup {id} |-> IF i = id THEN << >> ELSE fs[i]]
\* the same on a map that follows the files (synced lengths, live hints)
CreateWith(m, id, v) == [i \in DOMAIN m \cup {id} |-> IF i = id THEN v ELSE m[i]]

\* find_data_files: the ids of the data files of the directory, ascending.
find_data_files(df) == SortedSeq(DOMAIN df)

EmptyIndex == [k \in Keys |-> None]

Init ==
    /\ now = 0
    /\ dataFiles = << >>
    /\ hintFiles = << >>
    /\ synced = << >>
    /\ pc = "closed"
    /\ sync \in BOOLEAN
    /\ files = << >>
    /\ current_file_id = 0
    /\ data_pos = 0
    /\ hint_pos = 0
    /\ hasher = XxHash32New
    /\ todo = << >>
    /\ rh = None
    /\ index = EmptyIndex
    /\ recovered = << >>
    /\ acked = << >>
    /\ ackedAtOpen = 0
    /\ live = << >>
    /\ lastRebuild = None
    /\ damage = {}
    /\ tornDown = FALSE
    /\ collided = FALSE
    /\ opens = 0
    /\ faults = 0
    /\ lock = FALSE
    /\ holders = 0
    /\ failed_opens = 0
    /\ lastEnd = "none"
    /\ lastActive = 0
    /\ crashed = FALSE
    /\ reader = None

\* The clock advances by a second.
Tick ==
    /\ now < MaxTime
    /\ now' = now + 1
    /\ UNCHANGED << diskVars, pc, logVars, cursorVars, histVars, opens, faults,
                    lockVars, endVars, reader >>

(***************************************************************************)
(* Log::open (with the directory lock free).  The directory is scanned     *)
(* before the active segment's files are created.                          *)
(***************************************************************************)
\* an open that takes the lock whoever holds it
try_lock_always(held) == TRUE

\* lock_file.try_lock_exclusive() succeeds (log.rs:48)
try_lock_exclusive(held) == ~held

Open ==
    /\ pc = "closed"
    /\ opens < MaxOpens
    /\ try_lock_exclusive(lock)
    /\ lock' = TRUE
    /\ holders' = holders + 1
    /\ opens' = opens + 1
    /\ pc' = "open"
    /\ files' = find_data_files(dataFiles)
    /\ current_file_id' = now
    /\ dataFiles' = CreateFile(dataFiles, now)
    /\ hintFiles' = CreateFile(hintFiles, now)
    /\ synced' = CreateWith(synced, now, 0)
    /\ data_pos' = 0
    /\ hint_pos' = 0
    /\ hasher' = XxHash32New
    /\ todo' = find_data_files(dataFiles)
    /\ rh' = None
    /\ index' = EmptyIndex
    /\ recovered' = << >>
    /\ ackedAtOpen' = Len(acked)
    /\ live' = CreateWith(live, now, << >>)
    /\ lastRebuild' = None
    /\ damage' = { d \in damage : d.id # now }
    /\ collided' = (collided \/ now \in DOMAIN dataFiles)
    /\ UNCHANGED << now, sync, acked, tornDown, faults, failed_opens, endVars, reader >>

Ready == pc = "open" /\ todo = << >> /\ rh = None

\* time::now().to_timespec().sec as u32: the id of a segment created now.
new_file_id(t) == t

\* a rotation test that also rotates on an exact fill
exceeds_threshold_or_fills(pos, size) == pos + size >= DEFAULT_SIZE_THRESHOLD

\* write_entry's rotation test (log.rs:129).
exceeds_threshold(pos, size) == pos + size > DEFAULT_SIZE_THRESHOLD

\* a write_entry that keeps the old position after a rotation
pos_after_rotation_stale(old_pos) == old_pos

\* write_entry's local active_data_file_pos after a rotation (log.rs:136).
pos_after_rotation(old_pos) == 0

\* a write_entry that returns without sync_data
synced_after_write_never(syn, id, len) == syn

\* What of the active data file is on stable storage when write_entry
\* returns: all of it when self.sync is set (log.rs:145-147).
synced_after_write(syn, id, len) ==
    IF sync THEN [syn EXCEPT ![id] = len] ELSE syn

\* The pair write_entry returns (log.rs:149).
write_entry_result(file_id, pos) == [file_id |-> file_id, pos |-> pos]

(***************************************************************************)
(* Log::write_entry, with close_active_file and new_active_file when the   *)
(* active data file would pass the threshold.                              *)
(***************************************************************************)
write_entry(e) ==
    LET rotate == exceeds_threshold(data_pos, EntrySize(e))
        cur    == current_file_id
        id     == IF rotate THEN new_file_id(now) ELSE cur
        \* close_active_file: sync, then the hint checksum
        syn0   == IF rotate /\ sync
                  THEN [synced EXCEPT ![cur] = Len(dataFiles[cur])] ELSE synced
        hf0    == IF rotate
                  THEN [hintFiles EXCEPT
                          ![cur] = WriteAt(@, hint_pos, write_u32(hasher))]
                  ELSE hintFiles
        \* new_active_file
        df1    == IF rotate THEN CreateFile(dataFiles, id) ELSE dataFiles
        hf1    == IF rotate THEN CreateFile(hf0, id) ELSE hf0
        syn1   == IF rotate THEN CreateWith(syn0, id, 0) ELSE syn0
        lv1    == IF rotate THEN CreateWith(live, id, << >>) ELSE live
        \* the positions of the two handles, and the local active_data_file_pos
        dpos   == IF rotate THEN 0 ELSE data_pos
        hpos   == IF rotate THEN 0 ELSE hint_pos
        pos    == IF rotate THEN pos_after_rotation(data_pos) ELSE data_pos
        hs     == IF rotate THEN XxHash32New ELSE hasher
        hint   == HintNew(e, pos)
        df2    == [df1 EXCEPT ![id] = WriteAt(@, dpos, EntryBytes(e))]
    IN  /\ Ready
        /\ Len(acked) < MaxWrites
        /\ current_file_id' = id
        /\ dataFiles' = df2
        /\ hintFiles' = [hf1 EXCEPT ![id] = WriteAt(@, hpos, HintBytes(hint))]
        /\ hasher' = HashWrite(hs, HintBytes(hint))
        /\ data_pos' = dpos + Len(EntryBytes(e))
        /\ hint_pos' = hpos + Len(HintBytes(hint))
        /\ synced' = synced_after_write(syn1, id, Len(df2[id]))
        /\ acked' = Append(acked, [ret |-> write_entry_result(id, pos), entry |-> e])
        /\ live' = [lv1 EXCEPT ![id] = Append(@, hint)]
        /\ damage' = IF rotate THEN { d \in damage : d.id # id } ELSE damage
        /\ collided' = (collided \/ (rotate /\ id \in DOMAIN dataFiles))
        /\ UNCHANGED << now, pc, sync, files, todo, rh, recovered, ackedAtOpen,
                        lastRebuild, tornDown, opens, faults,
                    lockVars, endVars, reader >>

(***************************************************************************)
(* cask.rs: put and delete append through write_entry and then update the  *)
(* index with the location write_entry returned.                           *)
(***************************************************************************)
Location(file_id, h) ==
    [file_id |-> file_id, entry_pos |-> h.entry_pos,
     value_size |-> h.value_size, timestamp |-> h.timestamp]

\* replaying one hint into the index
Replay(ix, file_id, h) ==
    [ix EXCEPT ![h.key] = IF h.deleted THEN None ELSE Some(Location(file_id, h))]

RECURSIVE ReplayAll(_, _, _)
ReplayAll(ix, file_id, hs) ==
    IF hs = << >> THEN ix
    ELSE ReplayAll(Replay(ix, file_id, Head(hs)), file_id, Tail(hs))

Put(k, v) ==
    LET e == Entry(k, v, FALSE, now)
    IN  /\ write_entry(e)
        /\ index' = Replay(index, current_file_id',
                           HintNew(e, acked'[Len(acked')].ret.pos))

Delete(k) ==
    LET e == Entry(k, << >>, TRUE, now)
    IN  /\ write_entry(e)
        /\ index' = [index EXCEPT ![k] = None]

(***************************************************************************)
(* Drop for Log: the active hint file gets its checksum, the lock goes.    *)
(***************************************************************************)
ResetLog ==
    /\ pc' = "closed"
    /\ files' = << >>
    /\ current_file_id' = 0
    /\ data_pos' = 0
    /\ hint_pos' = 0
    /\ hasher' = XxHash32New
    /\ todo' = << >>
    /\ rh' = None
    /\ index' = EmptyIndex
    /\ recovered' = << >>
    /\ lastRebuild' = None
    /\ reader' = None

LogDrop ==
    /\ Ready \/ pc = "unwinding"
    /\ hintFiles' = [hintFiles EXCEPT
                       ![current_file_id] = WriteAt(@, hint_pos, write_u32(hasher))]
    /\ lock' = FALSE
    /\ holders' = holders - 1
    /\ ResetLog
    /\ tornDown' = TRUE
    /\ lastEnd' = "drop"
    /\ lastActive' = current_file_id
    /\ UNCHANGED << now, sync, dataFiles, synced, acked, ackedAtOpen, live, damage,
                    collided, opens, faults, failed_opens, crashed >>

\* The process dies: no destructor runs, the operating system drops the lock.
Crash ==
    /\ pc # "closed"
    /\ ResetLog
    /\ lock' = FALSE
    /\ holders' = holders - 1
    /\ lastEnd' = "crash"
    /\ lastActive' = current_file_id
    /\ crashed' = TRUE
    /\ UNCHANGED << now, sync, diskVars, acked, ackedAtOpen, live, damage, tornDown,
                    collided, opens, faults, failed_opens >>

(***************************************************************************)
(* Drop for Log, statement by statement: what another process can see      *)
(* between the two.                                                        *)
(***************************************************************************)
\* a drop that releases the lock before it writes the checksum
drop_order_unlock_first(i) == IF i = 1 THEN "unlock" ELSE "checksum"

\* the two statements of Drop for Log, in order (log.rs:182-186)
drop_order(i) == IF i = 1 THEN "checksum" ELSE "unlock"

DropDoes(what) ==
    /\ hintFiles' = IF what = "checksum"
                    THEN [hintFiles EXCEPT
                            ![current_file_id] = WriteAt(@, hint_pos, write_u32(hasher))]
                    ELSE hintFiles
    /\ lock' = IF what = "unlock" THEN FALSE ELSE lock

LogDropBegin ==
    /\ Ready \/ pc = "unwinding"
    /\ DropDoes(drop_order(1))
    /\ pc' = "dropping"
    /\ lastEnd' = "drop"
    /\ lastActive' = current_file_id
    /\ UNCHANGED << now, dataFiles, synced, logVars, cursorVars, histVars, opens,
                    faults, holders, failed_opens, crashed, reader >>

LogDropEnd ==
    /\ pc = "dropping"
    /\ DropDoes(drop_order(2))
    /\ ResetLog
    /\ holders' = holders - 1
    /\ tornDown' = TRUE
    /\ UNCHANGED << now, sync, dataFiles, synced, acked, ackedAtOpen, live, damage,
                    collided, opens, faults, failed_opens, endVars >>

(***************************************************************************)
(* Log::open by a second process while a Log is alive on the directory.    *)
(***************************************************************************)
\* an open that creates its segment file before it tries the lock
open_creates_first(fs, id) == CreateFile(fs, id)

\* the segment files after the part of open that precedes the lock
\* (log.rs:39-48): none is created
open_before_lock(fs, id) == fs

OpenOther ==
    /\ pc # "closed"
    /\ failed_opens < MaxFailedOpens
    /\ holders < 2
    /\ IF try_lock_exclusive(lock)
       THEN \* the lock is taken and the active segment created (log.rs:50-55)
            /\ lock' = TRUE
            /\ holders' = holders + 1
            /\ dataFiles' = CreateFile(dataFiles, now)
            /\ hintFiles' = CreateFile(hintFiles, now)
            /\ synced' = CreateWith(synced, now, 0)
            /\ live' = CreateWith(live, now, << >>)
            /\ UNCHANGED failed_opens
       ELSE \* try_lock_exclusive().unwrap() panics
            /\ failed_opens' = failed_opens + 1
            /\ dataFiles' = open_before_lock(dataFiles, now)
            /\ hintFiles' = open_before_lock(hintFiles, now)
            /\ UNCHANGED << lock, holders, synced, live >>
    /\ UNCHANGED << now, pc, logVars, cursorVars, acked, ackedAtOpen, lastRebuild,
                    damage, tornDown, collided, opens, faults, endVars, reader >>

(***************************************************************************)
(* Log::hints and is_valid_hint_file; the Hints iterator.                  *)
(***************************************************************************)
is_valid_hint_file(file_id) ==
    /\ file_id \in DOMAIN hintFiles
    /\ LET buf == hintFiles[file_id]
       IN  /\ Len(buf) >= 4
           /\ xxhash32(Take(buf, Len(buf) - 4)) = read_u32(Drop(buf, Len(buf) - 4))

\* a Hints iterator that reads through the trailing checksum as well
hints_limit_whole(hint_file_size) == hint_file_size

\* the limit of the Take the Hints iterator reads through (log.rs:99)
hints_limit(hint_file_size) == hint_file_size - 4

hints(file_id) ==
    IF is_valid_hint_file(file_id)
    THEN Some([file_id |-> file_id,
               limit |-> hints_limit(Len(hintFiles[file_id]))])
    ELSE None

\* Hints::next to the end: every hint the iterator yields.
HintsCollect(it) == DecodeHints(Take(hintFiles[it.file_id], it.limit))

(***************************************************************************)
(* Log::entries and Entries::next.                                         *)
(***************************************************************************)
entries(file_id) ==
    [file_id |-> file_id, size |-> Len(dataFiles[file_id]),
     limit |-> Len(dataFiles[file_id]), data_file_pos |-> 0]

\* an Entries::next that advances its position by header and key only
next_entry_pos_without_value(data_file_pos, entry) ==
    data_file_pos + ENTRY_STATIC_SIZE + Len(entry.key)

\* the position Entries::next keeps for the record after `entry` (log.rs:206)
next_entry_pos(data_file_pos, entry) == data_file_pos + EntrySize(entry)

\* Entries::next.  Entry::from_read returns an Entry, not a Result: when the
\* bytes left are no record it can only panic.
\* the bytes the Take lets through: the file as it is now, from the
\* position of the handle, to the limit at most
EntriesTake(it, len) ==
    SubSeq(dataFiles[it.file_id], it.size - it.limit + 1,
           IF it.size <= len THEN it.size ELSE len)

\* what next makes of the result r of Entry::from_read
EntriesNextOf(it, r) ==
    IF ~r.ok THEN [none |-> FALSE, panics |-> TRUE]
    ELSE [none |-> FALSE, panics |-> FALSE,
          entry_pos |-> it.data_file_pos, entry |-> r.entry,
          it |-> [it EXCEPT
                    !.limit = @ - EntrySize(r.entry),
                    !.data_file_pos = next_entry_pos(@, r.entry)]]

EntriesNext(it) ==
    IF it.limit = 0 THEN [none |-> TRUE, panics |-> FALSE]
    ELSE EntriesNextOf(it, EntryFromRead(EntriesTake(it, Len(dataFiles[it.file_id]))))

\* Entries::next to the end: every (offset, entry) the iterator yields.
RECURSIVE EntriesCollect(_)
EntriesCollectOf(n) ==
    IF n.none \/ n.panics THEN << >>
    ELSE << [entry_pos |-> n.entry_pos, entry |-> n.entry] >>
             \o EntriesCollect(n.it)

EntriesCollect(it) == EntriesCollectOf(EntriesNext(it))

(***************************************************************************)
(* A caller of Log::entries that keeps the iterator while it goes on       *)
(* using the Log.                                                          *)
(***************************************************************************)
ReadEntriesCall ==
    /\ Ready /\ reader = None
    /\ \E id \in DOMAIN dataFiles :
          reader' = [it |-> entries(id), yielded |-> << >>,
                     atCall |-> DecodeEntries(dataFiles[id]),
                     done |-> FALSE, panicked |-> FALSE]
    /\ UNCHANGED << now, diskVars, pc, logVars, cursorVars, histVars, opens,
                    faults, lockVars, endVars >>

ReadEntriesNext ==
    /\ pc = "open" /\ reader # None /\ ~reader.done /\ ~reader.panicked
    /\ \E n \in { EntriesNext(reader.it) } :
         /\ reader' =
              IF n.none THEN [reader EXCEPT !.done = TRUE]
              ELSE IF n.panics THEN [reader EXCEPT !.panicked = TRUE]
              ELSE [reader EXCEPT
                      !.it = n.it,
                      !.yielded = Append(@, [entry_pos |-> n.entry_pos,
                                             entry |-> n.entry])]
         /\ pc' = IF n.panics THEN "unwinding" ELSE pc
    /\ UNCHANGED << now, diskVars, logVars, cursorVars, histVars, opens,
                    faults, lockVars, endVars >>

\* the iterator is dropped
ReadEntriesDrop ==
    /\ pc = "open" /\ reader # None /\ reader.done
    /\ reader' = None
    /\ UNCHANGED << now, diskVars, pc, logVars, cursorVars, histVars, opens,
                    faults, lockVars, endVars >>

(***************************************************************************)
(* RecreateHints: next writes the hint it yields; drop drains the entries  *)
(* that are left and then writes the checksum.  `hf` is the content of     *)
(* the hint file the iterator writes.                                      *)
(***************************************************************************)
\* the closure of next: the hint is written to the file and to the hasher
RecreateHintsWrite(r, hf, hint, bytes, it) ==
    [none |-> FALSE, panics |-> FALSE, hint |-> hint,
     hf |-> WriteAt(hf, r.hint_pos, bytes),
     r |-> [r EXCEPT !.hint_pos = @ + Len(bytes),
                     !.hasher = HashWrite(@, bytes),
                     !.entries = it]]

RecreateHintsMap(r, hf, n) ==
    IF n.none \/ n.panics
    THEN [none |-> n.none, panics |-> n.panics, r |-> r, hf |-> hf]
    ELSE RecreateHintsWrite(r, hf, HintNew(n.entry, n.entry_pos),
                            HintBytes(HintNew(n.entry, n.entry_pos)), n.it)

RecreateHintsNextOn(r, hf) == RecreateHintsMap(r, hf, EntriesNext(r.entries))

RECURSIVE RecreateHintsDrain(_, _)
RecreateHintsDrainOf(r, hf, s) ==
    IF s.none \/ s.panics THEN [r |-> r, hf |-> hf, panics |-> s.panics]
    ELSE RecreateHintsDrain(s.r, s.hf)

RecreateHintsDrain(r, hf) == RecreateHintsDrainOf(r, hf, RecreateHintsNextOn(r, hf))

\* a drop that writes the checksum without reading the entries that are left
RecreateHintsDropNoDrain(r, hf) ==
    WriteAt(hf, r.hint_pos, write_u32(r.hasher))

\* a drop that writes the checksum a second time after the first
RecreateHintsChecksumTwice(d) ==
    WriteAt(d.hf, d.r.hint_pos, write_u32(d.r.hasher) \o write_u32(d.r.hasher))

RecreateHintsDropTwice(r, hf) == RecreateHintsChecksumTwice(RecreateHintsDrain(r, hf))

\* Drop for RecreateHints (log.rs:250-257); a panic in its loop leaves the
\* checksum unwritten
RecreateHintsChecksum(d) ==
    IF d.panics THEN d.hf
    ELSE WriteAt(d.hf, d.r.hint_pos, write_u32(d.r.hasher))

RecreateHintsDropOn(r, hf) == RecreateHintsChecksum(RecreateHintsDrain(r, hf))

\* how the hint file of a segment stands before a rebuild
HintFileWas(file_id) ==
    IF file_id \notin DOMAIN hintFiles THEN "missing"
    ELSE IF \E d \in damage : d.id = file_id
         THEN (CHOOSE d \in damage : d.id = file_id).kind
         ELSE "unfinished"

(***************************************************************************)
(* cask.rs, start-up recovery: for each id of log.files(), ascending,      *)
(* replay log.hints(id) when present, log.recreate_hints(id) otherwise.    *)
(***************************************************************************)
Tagged(file_id, hs) == [i \in 1..Len(hs) |-> [file_id |-> file_id, hint |-> hs[i]]]

RecoverFromHints ==
    /\ pc = "open" /\ todo # << >> /\ rh = None
    /\ LET id == Head(todo)
           h  == hints(id)
       IN  /\ IsSome(h)
           /\ recovered' = recovered \o Tagged(id, HintsCollect(h.val))
           /\ index' = ReplayAll(index, id, HintsCollect(h.val))
    /\ todo' = Tail(todo)
    /\ UNCHANGED << now, diskVars, pc, logVars, rh, histVars, opens, faults,
                    lockVars, endVars, reader >>

\* Log::recreate_hints: the hint file is truncated, the data file measured.
RecreateHintsCall ==
    /\ pc = "open" /\ todo # << >> /\ rh = None
    /\ LET id == Head(todo)
       IN  /\ ~IsSome(hints(id))
           /\ hintFiles' = CreateFile(hintFiles, id)
           /\ rh' = [file_id |-> id, hint_pos |-> 0, hasher |-> XxHash32New,
                     entries |-> entries(id), yielded |-> << >>,
                     liveAtCall |-> live[id], was |-> HintFileWas(id)]
           /\ damage' = { d \in damage : d.id # id }
    /\ UNCHANGED << now, dataFiles, synced, pc, logVars, todo, index, recovered,
                    acked, ackedAtOpen, live, lastRebuild, tornDown, collided,
                    opens, faults,
                    lockVars, endVars, reader >>

\* the recovery loop takes the next hint of the iterator and replays it
RecreateHintsNext ==
    /\ pc = "open" /\ rh # None
    /\ \E s \in { RecreateHintsNextOn(rh, hintFiles[rh.file_id]) } :
           /\ ~s.none /\ ~s.panics
           /\ hintFiles' = [hintFiles EXCEPT ![rh.file_id] = s.hf]
           /\ rh' = [s.r EXCEPT !.yielded = Append(@, s.hint)]
           /\ recovered' = Append(recovered, [file_id |-> rh.file_id, hint |-> s.hint])
           /\ index' = Replay(index, rh.file_id, s.hint)
    /\ UNCHANGED << now, dataFiles, synced, pc, logVars, todo, histVars,
                    opens, faults,
                    lockVars, endVars, reader >>

Rebuilt(r) ==
    Some([file_id |-> r.file_id, yielded |-> r.yielded,
          total |-> Len(EntriesCollect(entries(r.file_id))),
          liveAtCall |-> r.liveAtCall, was |-> r.was, panicked |-> FALSE])

\* next returned None: the loop ends and the iterator is dropped
RecreateHintsExhausted ==
    /\ pc = "open" /\ rh # None
    /\ EntriesNext(rh.entries).none
    /\ hintFiles' = [hintFiles EXCEPT
                       ![rh.file_id] = RecreateHintsDropOn(rh, @)]
    /\ lastRebuild' = Rebuilt(rh)
    /\ rh' = None
    /\ todo' = Tail(todo)
    /\ UNCHANGED << now, dataFiles, synced, pc, logVars, index, recovered,
                    acked, ackedAtOpen, live, damage, tornDown, collided, opens,
                    faults,
                    lockVars, endVars, reader >>

\* the loop is left early (its body panics): the iterator is dropped with
\* entries still unread, and the stack unwinds towards the Log
RecreateHintsAbandon ==
    /\ pc = "open" /\ rh # None
    /\ ~EntriesNext(rh.entries).none
    /\ ~RecreateHintsDrain(rh, hintFiles[rh.file_id]).panics
    /\ hintFiles' = [hintFiles EXCEPT
                       ![rh.file_id] = RecreateHintsDropOn(rh, @)]
    /\ lastRebuild' = Rebuilt(rh)
    /\ rh' = None
    /\ pc' = "unwinding"
    /\ UNCHANGED << now, dataFiles, synced, logVars, todo, index, recovered,
                    acked, ackedAtOpen, live, damage, tornDown, collided, opens,
                    faults,
                    lockVars, endVars, reader >>

\* next panics in the recovery loop, on bytes that are no record.  The
\* failed read has used up the rest of the Take, so the next of Drop for
\* RecreateHints returns None, the checksum is written and the stack
\* unwinds towards the Log.
RecreateHintsPanic ==
    /\ pc = "open" /\ rh # None
    /\ RecreateHintsNextOn(rh, hintFiles[rh.file_id]).panics
    /\ hintFiles' = [hintFiles EXCEPT
                       ![rh.file_id] = WriteAt(@, rh.hint_pos, write_u32(rh.hasher))]
    /\ lastRebuild' = Some([Rebuilt(rh).val EXCEPT !.panicked = TRUE])
    /\ rh' = None
    /\ pc' = "unwinding"
    /\ UNCHANGED << now, dataFiles, synced, logVars, todo, index, recovered,
                    acked, ackedAtOpen, live, damage, tornDown, collided, opens,
                    faults, lockVars, endVars, reader >>

\* a next panics and the next of Drop for RecreateHints, run while the stack
\* unwinds, panics as well: the process is aborted, no destructor runs.
RecreateHintsAbort ==
    /\ pc = "open" /\ rh # None
    /\ \E d \in { RecreateHintsDrain(rh, hintFiles[rh.file_id]) } :
         /\ d.panics
         /\ hintFiles' = [hintFiles EXCEPT ![rh.file_id] = d.hf]
    /\ ResetLog
    /\ lock' = FALSE
    /\ holders' = holders - 1
    /\ lastEnd' = "abort"
    /\ lastActive' = current_file_id
    /\ crashed' = TRUE
    /\ UNCHANGED << now, sync, dataFiles, synced, acked, ackedAtOpen, live, damage,
                    tornDown, collided, opens, faults, failed_opens >>

(***************************************************************************)
(* Damage to a hint file while no process holds the directory.             *)
(***************************************************************************)
Without(fs, id) == [i \in DOMAIN fs \ {id} |-> fs[i]]

Damaged(id, kind) == (damage \ { d \in damage : d.id = id }) \cup { [id |-> id, kind |-> kind] }

FaultFrame ==
    /\ pc = "closed"
    /\ faults < MaxFaults
    /\ faults' = faults + 1
    /\ UNCHANGED << now, dataFiles, synced, pc, logVars, cursorVars, acked,
                    ackedAtOpen, live, lastRebuild, tornDown, collided, opens,
                    lockVars, endVars, reader >>

FaultDelete ==
    /\ FaultFrame
    /\ \E id \in DOMAIN hintFiles :
         /\ hintFiles' = Without(hintFiles, id)
         /\ damage' = Damaged(id, "missing")

FaultTruncate ==
    /\ FaultFrame
    /\ \E id \in DOMAIN hintFiles :
         \E n \in { 0, 3, Len(hintFiles[id]) - 4, Len(hintFiles[id]) - 1 } :
            /\ n >= 0 /\ n < Len(hintFiles[id])
            /\ hintFiles' = [hintFiles EXCEPT ![id] = Take(@, n)]
            /\ damage' = Damaged(id, "truncated")

FaultFlip ==
    /\ FaultFrame
    /\ \E id \in DOMAIN hintFiles :
         \E i \in 1..Len(hintFiles[id]) :
            /\ hintFiles' = [hintFiles EXCEPT ![id][i] = (@ + 1) % 256]
            /\ damage' = Damaged(id, "flipped")

Next ==
    \/ Tick
    \/ Open
    \/ \E k \in Keys, v \in Values : Put(k, v)
    \/ \E k \in Keys : Delete(k)
    \/ LogDrop
    \/ Crash
    \/ RecoverFromHints
    \/ RecreateHintsCall
    \/ RecreateHintsNext
    \/ RecreateHintsExhausted
    \/ RecreateHintsAbandon

Spec == Init /\ [][Next]_vars

(***************************************************************************)
(* The second specification: a directory that one earlier session left     *)
(* behind (a segment 0 with up to MaxSegEntries entries, closed by Drop or  *)
(* cut by a crash), whose hint file is then damaged before the directory    *)
(* is opened again and recovered.                                           *)
(***************************************************************************)
RECURSIVE Flatten(_)
Flatten(ss) == IF ss = << >> THEN << >> ELSE Head(ss) \o Flatten(Tail(ss))

RECURSIVE OffsetOf(_, _)
OffsetOf(es, i) == IF i <= 1 THEN 0 ELSE OffsetOf(es, i - 1) + EntrySize(es[i - 1])

\* the hints write_entry derives for entries appended to a fresh segment
HintsFor(es) == [i \in 1..Len(es) |-> HintNew(es[i], OffsetOf(es, i))]

DataBytesOf(es) == Flatten([i \in 1..Len(es) |-> EntryBytes(es[i])])
HintBytesOf(hs) == Flatten([i \in 1..Len(hs) |-> HintBytes(hs[i])])

FirstSessionEntries ==
    { Entry(k, v, FALSE, 0) : k \in Keys, v \in Values }
        \cup { Entry(k, << >>, TRUE, 0) : k \in Keys }

FirstSessions ==
    { es \in UNION { [1..n -> FirstSessionEntries] : n \in 0..MaxSegEntries } :
        \A i \in 1..Len(es) :
            ~exceeds_threshold(OffsetOf(es, i), EntrySize(es[i])) }

InitFault ==
    \E es \in FirstSessions, dropped \in BOOLEAN :
        /\ now = 1
        /\ dataFiles = (0 :> DataBytesOf(es))
        /\ hintFiles = (0 :> (HintBytesOf(HintsFor(es))
                                \o IF dropped
                                   THEN write_u32(xxhash32(HintBytesOf(HintsFor(es))))
                                   ELSE << >>))
        /\ synced = (0 :> 0)
        /\ pc = "closed"
        /\ sync = FALSE
        /\ files = << >>
        /\ current_file_id = 0
        /\ data_pos = 0
        /\ hint_pos = 0
        /\ hasher = XxHash32New
        /\ todo = << >>
        /\ rh = None
        /\ index = EmptyIndex
        /\ recovered = << >>
        /\ acked = [i \in 1..Len(es) |->
                      [ret |-> write_entry_result(0, OffsetOf(es, i)), entry |-> es[i]]]
        /\ ackedAtOpen = 0
        /\ live = (0 :> HintsFor(es))
        /\ lastRebuild = None
        /\ damage = {}
        /\ tornDown = dropped
        /\ collided = FALSE
        /\ opens = 1
        /\ faults = 0
        /\ lock = FALSE
        /\ holders = 0
        /\ failed_opens = 0
        /\ lastEnd = IF dropped THEN "drop" ELSE "crash"
        /\ lastActive = 0
        /\ crashed = ~dropped
        /\ reader = None

NextFault ==
    \/ FaultDelete
    \/ FaultTruncate
    \/ FaultFlip
    \/ Open
    \/ RecoverFromHints
    \/ RecreateHintsCall
    \/ RecreateHintsNext
    \/ RecreateHintsExhausted
    \/ RecreateHintsAbandon
    \/ LogDrop
    \/ Crash

SpecFault == InitFault /\ [][NextFault]_vars

(***************************************************************************)
(* A directory whose segment 0 was being appended to when the process      *)
(* died: the data file ends in the first bytes of an entry, the hint file  *)
(* has the hints of the entries before and no checksum.                    *)
(***************************************************************************)
TornCuts(e) == { 0, 1, ENTRY_STATIC_SIZE - 1, Len(EntryBytes(e)) - 1 }

InitTorn ==
    \E es \in FirstSessions, e \in FirstSessionEntries :
      \E cut \in TornCuts(e) :
        /\ now = 1
        /\ dataFiles = (0 :> (DataBytesOf(es) \o Take(EntryBytes(e), cut)))
        /\ hintFiles = (0 :> HintBytesOf(HintsFor(es)))
        /\ synced = (0 :> 0)
        /\ pc = "closed"
        /\ sync = FALSE
        /\ files = << >>
        /\ current_file_id = 0
        /\ data_pos = 0
        /\ hint_pos = 0
        /\ hasher = XxHash32New
        /\ todo = << >>
        /\ rh = None
        /\ index = EmptyIndex
        /\ recovered = << >>
        /\ acked = [i \in 1..Len(es) |->
                      [ret |-> write_entry_result(0, OffsetOf(es, i)), entry |-> es[i]]]
        /\ ackedAtOpen = 0
        /\ live = (0 :> HintsFor(es))
        /\ lastRebuild = None
        /\ damage = {}
        /\ tornDown = FALSE
        /\ collided = FALSE
        /\ opens = 1
        /\ faults = 0
        /\ lock = FALSE
        /\ holders = 0
        /\ failed_opens = 0
        /\ lastEnd = "crash"
        /\ lastActive = 0
        /\ crashed = TRUE
        /\ reader = None

NextTorn ==
    \/ Open
    \/ RecreateHintsCall
    \/ RecreateHintsNext
    \/ RecreateHintsExhausted
    \/ RecreateHintsAbandon
    \/ RecreateHintsPanic
    \/ RecreateHintsAbort
    \/ LogDrop
    \/ Crash

SpecTorn == InitTorn /\ [][NextTorn]_vars

(***************************************************************************)
(* The operations of Spec, with a caller that iterates over Log::entries   *)
(* between them.                                                           *)
(***************************************************************************)
NextRead ==
    \/ Tick
    \/ Open
    \/ \E k \in Keys, v \in Values : Put(k, v)
    \/ \E k \in Keys : Delete(k)
    \/ ReadEntriesCall
    \/ ReadEntriesNext
    \/ ReadEntriesDrop
    \/ LogDrop
    \/ RecoverFromHints

SpecRead == Init /\ [][NextRead]_vars

(***************************************************************************)
(* The operations of Log with values of all sizes: a put may carry a value *)
(* that makes its entry larger than the threshold.                         *)
(***************************************************************************)
OversizeValues == { [i \in 1..(DEFAULT_SIZE_THRESHOLD - ENTRY_STATIC_SIZE) |-> 0] }

NextSize ==
    \/ Tick
    \/ Open
    \/ \E k \in Keys, v \in Values \cup OversizeValues : Put(k, v)
    \/ \E k \in Keys : Delete(k)
    \/ LogDrop
    \/ RecoverFromHints

SpecSize == Init /\ [][NextSize]_vars

(***************************************************************************)
(* Two processes on one directory.  Drop for Log runs *)
(* statement by statement and a second process tries to open.              *)
(***************************************************************************)
NextLock ==
    \/ Tick
    \/ Open
    \/ \E k \in Keys, v \in Values : Put(k, v)
    \/ \E k \in Keys : Delete(k)
    \/ LogDropBegin
    \/ LogDropEnd
    \/ Crash
    \/ OpenOther
    \/ RecoverFromHints
    \/ RecreateHintsCall
    \/ RecreateHintsNext
    \/ RecreateHintsExhausted
    \/ RecreateHintsAbandon

SpecLock == Init /\ [][NextLock]_vars

TypeOK ==
    /\ now \in 0..MaxTime
    /\ DOMAIN dataFiles \subseteq SegIds
    /\ DOMAIN hintFiles \subseteq SegIds
    /\ pc \in { "closed", "open", "unwinding", "dropping" }
    /\ Len(acked) <= MaxWrites


-----------------------------------------------------------------------------
\* Properties.

Range(f) == { f[i] : i \in DOMAIN f }

\* what recovery must reproduce from the acknowledged appends, in order
AckedHints ==
    [i \in 1..Len(acked) |->
        [file_id |-> acked[i].ret.file_id,
         hint    |-> HintNew(acked[i].entry, acked[i].ret.pos)]]

\* the index that replaying the acknowledged appends in order gives
RECURSIVE AckedIndex(_)
AckedIndex(n) ==
    IF n = 0 THEN EmptyIndex
    ELSE Replay(AckedIndex(n - 1), AckedHints[n].file_id, AckedHints[n].hint)

\* a session that was reopened, finished its recovery and has not written yet
RecoveredSession ==
    /\ Ready
    /\ opens >= 2
    /\ Len(acked) = ackedAtOpen
    /\ faults = 0

\* C1: after any number of acknowledged appends, a crash and a reopen (with
\* synchronous writes), recovery over the segments in ascending id order
\* yields exactly the acknowledged entries, in order and at their locations.
C1_CrashRecoverability ==
    (RecoveredSession /\ sync /\ ~tornDown) => recovered = AckedHints

\* C1 holds in every run where no segment id was used twice
C1_WithoutCollision ==
    (RecoveredSession /\ sync /\ ~tornDown /\ ~collided) => recovered = AckedHints

C1_Witness ==
    /\ RecoveredSession /\ sync /\ ~tornDown /\ ~collided
    /\ Len(acked) = MaxWrites
    /\ recovered = AckedHints

\* C2: after a full restart the index maps every key to the location of its
\* most recent acknowledged write, and has no live entry for a key whose
\* last write was a delete.
C2_IndexConvergence ==
    RecoveredSession => index = AckedIndex(Len(acked))

C2_WithoutCollision ==
    (RecoveredSession /\ ~collided) => index = AckedIndex(Len(acked))

C2_Witness ==
    /\ RecoveredSession /\ ~collided
    /\ Len(acked) = MaxWrites
    /\ \E k \in Keys : IsSome(index[k])
    /\ index = AckedIndex(Len(acked))


\* a step that is one write_entry call, and the entry it was given
WriteStep == Len(acked') = Len(acked) + 1
Written == acked'[Len(acked')].entry

\* a write_entry call that finds the active data file too full for its entry
RotatingStep == WriteStep /\ exceeds_threshold(data_pos, EntrySize(Written))

\* a step that opens the log
OpenStep == pc = "closed" /\ pc' = "open"

\* C3: an append that would exceed the size threshold creates exactly one new
\* segment, with an id strictly greater than the previous active id, and
\* writes the entry whole into it; the entry is never split over two segments.
C3_RotationCorrectness ==
    [][RotatingStep =>
          /\ current_file_id' \notin DOMAIN dataFiles
          /\ DOMAIN dataFiles' = DOMAIN dataFiles \cup { current_file_id' }
          /\ current_file_id' > current_file_id
          /\ dataFiles'[current_file_id'] = EntryBytes(Written)
          /\ \A id \in DOMAIN dataFiles : dataFiles'[id] = dataFiles[id]]_vars

\* C3 holds for every rotation that happens after the clock has moved on
C3_WhenClockAdvanced ==
    [][(RotatingStep /\ now > current_file_id) =>
          /\ current_file_id' \notin DOMAIN dataFiles
          /\ DOMAIN dataFiles' = DOMAIN dataFiles \cup { current_file_id' }
          /\ current_file_id' > current_file_id
          /\ dataFiles'[current_file_id'] = EntryBytes(Written)
          /\ \A id \in DOMAIN dataFiles : dataFiles'[id] = dataFiles[id]]_vars

\* Log::read_entry: seek to entry_pos and decode one entry
read_entry(file_id, entry_pos) ==
    EntryFromRead(Drop(dataFiles[file_id], entry_pos))

\* the latest write_entry call of the running session, if there was one
LastWrite == acked[Len(acked)]
WroteThisSession == pc = "open" /\ Len(acked) > ackedAtOpen

\* C4: the location write_entry returns names the active segment and the
\* length its data file had just before the entry's bytes went in, and
\* read_entry at that location decodes the entry that was appended.
C4_AppendReturnsLocation ==
    WroteThisSession =>
        /\ LastWrite.ret.file_id = current_file_id
        /\ LastWrite.ret.pos + EntrySize(LastWrite.entry)
              = Len(dataFiles[current_file_id])
        /\ read_entry(LastWrite.ret.file_id, LastWrite.ret.pos)
              = [ok |-> TRUE, entry |-> LastWrite.entry]

\* a write that rotated away from a segment holding an earlier entry
C4_Witness ==
    /\ WroteThisSession
    /\ Len(acked) >= 2
    /\ acked[Len(acked) - 1].ret.file_id # LastWrite.ret.file_id
    /\ Len(dataFiles[acked[Len(acked) - 1].ret.file_id]) > 0
    /\ LastWrite.ret.pos = 0
    /\ read_entry(LastWrite.ret.file_id, LastWrite.ret.pos)
          = [ok |-> TRUE, entry |-> LastWrite.entry]


\* the rebuild that last ended in this session, when nothing was written since
Rebuild == lastRebuild.val
RebuildStands ==
    /\ IsSome(lastRebuild)
    /\ pc # "closed"
    /\ Len(acked) = ackedAtOpen

\* C5: for a segment written by write_entry alone, recreate_hints yields
\* the same hints, in the same order, as write_entry wrote live: a prefix of
\* them while the iterator runs, all of them once it is exhausted.
C5_HintFidelity ==
    /\ rh # None =>
          /\ Len(rh.yielded) <= Len(rh.liveAtCall)
          /\ rh.yielded = [i \in 1..Len(rh.yielded) |-> rh.liveAtCall[i]]
    /\ (IsSome(lastRebuild) /\ Len(Rebuild.yielded) = Rebuild.total) =>
          Rebuild.yielded = Rebuild.liveAtCall

\* an exhausted rebuild of a segment of at least two entries
C5_Witness ==
    /\ IsSome(lastRebuild)
    /\ Rebuild.total >= 2
    /\ Len(Rebuild.yielded) = Rebuild.total
    /\ Rebuild.yielded = Rebuild.liveAtCall
    /\ Rebuild.yielded[2].entry_pos > 0

\* the bytes before and in the trailing checksum of a hint file
Payload(buf) == Take(buf, Len(buf) - 4)
Trailer(buf) == Drop(buf, Len(buf) - 4)

\* C6: hints(id) is present exactly when the hint file exists, is at least
\* 4 bytes long and ends with the checksum of the bytes before; it is absent
\* for a file that is missing, cut short, changed in a byte or left without
\* its checksum; when present it yields the hints decoded from the bytes
\* before the trailing checksum, and nothing else.
C6_ReadHints ==
    \A id \in SegIds :
        /\ IsSome(hints(id)) <=>
              /\ id \in DOMAIN hintFiles
              /\ Len(hintFiles[id]) >= 4
              /\ Trailer(hintFiles[id]) = write_u32(xxhash32(Payload(hintFiles[id])))
        /\ (\E d \in damage : d.id = id) => ~IsSome(hints(id))
        /\ (id \in DOMAIN hintFiles /\ id \in DOMAIN live
              /\ hintFiles[id] = HintBytesOf(live[id])) => ~IsSome(hints(id))
        /\ IsSome(hints(id)) =>
              /\ HintsCollect(hints(id).val) = DecodeHints(Payload(hintFiles[id]))
              /\ Undecodable \notin Range(HintsCollect(hints(id).val))
              /\ HintBytesOf(HintsCollect(hints(id).val)) = Payload(hintFiles[id])

\* an intact hint file of two hints is read back as those two hints
C6_Witness ==
    /\ pc = "open"
    /\ damage = {}
    /\ IsSome(hints(0))
    /\ Len(HintsCollect(hints(0).val)) = 2
    /\ HintsCollect(hints(0).val) = live[0]

\* a damaged hint file of a non-empty segment is reported absent
C6_WitnessDamaged ==
    /\ \E d \in damage : d.id = 0 /\ d.kind # "missing"
    /\ 0 \in DOMAIN hintFiles
    /\ Len(hintFiles[0]) >= 4
    /\ ~IsSome(hints(0))

\* C7: whatever number k of its n hints the consumer took before dropping
\* the iterator, the hint file then holds the n hints followed by their
\* checksum, once, as its last 4 bytes.
C7_FinalizedOnce ==
    RebuildStands =>
        LET P == HintBytesOf(Rebuild.liveAtCall)
        IN  /\ Rebuild.total = Len(Rebuild.liveAtCall)
            /\ Len(Rebuild.yielded) <= Rebuild.total
            /\ hintFiles[Rebuild.file_id] = P \o write_u32(xxhash32(P))

\* a rebuild dropped after k = 1 of n = 2 hints
C7_Witness ==
    /\ RebuildStands
    /\ Rebuild.total = 2
    /\ Len(Rebuild.yielded) = 1
    /\ Len(hintFiles[Rebuild.file_id]) = Len(HintBytesOf(Rebuild.liveAtCall)) + 4

\* a rebuild consumed to the end (k = n) and one dropped at once (k = 0)
C7_WitnessAll ==
    RebuildStands /\ Rebuild.total = 2 /\ Len(Rebuild.yielded) = 2
C7_WitnessNone ==
    RebuildStands /\ Rebuild.total = 2 /\ Len(Rebuild.yielded) = 0

\* C8: a hint file found missing, cut short or with a wrong checksum is
\* rebuilt from the data file: afterwards, even when the consumer left the
\* rebuild early, hints(id) is present and yields one hint per entry of
\* the data file, in order.
C8_HintRepair ==
    (RebuildStands /\ Rebuild.was \in { "missing", "truncated", "flipped", "unfinished" }) =>
        /\ LET P == HintBytesOf(HintsFor(DecodeEntries(dataFiles[Rebuild.file_id])))
           IN  hintFiles[Rebuild.file_id] = P \o write_u32(xxhash32(P))
        /\ IsSome(hints(Rebuild.file_id))
        /\ HintsCollect(hints(Rebuild.file_id).val)
              = HintsFor(DecodeEntries(dataFiles[Rebuild.file_id]))
        /\ Len(HintsCollect(hints(Rebuild.file_id).val)) = Rebuild.total

\* a hint file with a flipped byte, repaired by a rebuild left early
C8_Witness ==
    /\ RebuildStands
    /\ Rebuild.was = "flipped"
    /\ Rebuild.total = 2
    /\ Len(Rebuild.yielded) < Rebuild.total
    /\ IsSome(hints(Rebuild.file_id))
    /\ Len(HintsCollect(hints(Rebuild.file_id).val)) = 2

C8_WitnessMissing == RebuildStands /\ Rebuild.was = "missing" /\ Rebuild.total = 2
C8_WitnessTruncated == RebuildStands /\ Rebuild.was = "truncated" /\ Rebuild.total = 2
C8_WitnessUnfinished == RebuildStands /\ Rebuild.was = "unfinished" /\ Rebuild.total = 2


\* the segments that have been rotated away from or left by an earlier session
Sealed ==
    IF pc = "closed" THEN DOMAIN dataFiles
    ELSE DOMAIN dataFiles \ { current_file_id }

\* a step that creates an active segment: an open or a rotation
NewSegmentStep == OpenStep \/ RotatingStep

\* C9: a sealed segment is never made active again and its data file is
\* never modified; the id of a new active segment is never the id of a
\* segment that was sealed or that exists.
C9_SealedImmutable ==
    [][/\ \A id \in Sealed :
             /\ id \in DOMAIN dataFiles'
             /\ dataFiles'[id] = dataFiles[id]
             /\ pc' = "open" => current_file_id' # id
       /\ NewSegmentStep => current_file_id' \notin DOMAIN dataFiles]_vars

\* C9 holds in every step of a run up to its first reuse of a segment id
C9_WithoutCollision ==
    [][~collided' =>
          /\ \A id \in Sealed :
                /\ id \in DOMAIN dataFiles'
                /\ dataFiles'[id] = dataFiles[id]
                /\ pc' = "open" => current_file_id' # id
          /\ NewSegmentStep => current_file_id' \notin DOMAIN dataFiles]_vars

\* strictly ascending
Ascending(seq) == \A i, j \in DOMAIN seq : i < j => seq[i] < seq[j]

\* C10: files() holds, in ascending order, the id of the active segment,
\* of every segment sealed in this session and of every segment found at open.
C10_ListSegments ==
    pc = "open" =>
        /\ Ascending(files)
        /\ current_file_id \in Range(files)
        /\ DOMAIN dataFiles \subseteq Range(files)

\* what files() does hold: in ascending order, the ids found by the scan
\* that open makes before it creates the active segment
C10_FoundAtOpen ==
    pc = "open" =>
        /\ Ascending(files)
        /\ Range(files) \subseteq DOMAIN dataFiles


\* C11: at most one Log holds the directory at any time: an open while the
\* lock is held does not produce a second one, and once the holder is gone
\* (torn down or dead) the lock is free for the next open.
C11_SingleWriter ==
    /\ holders <= 1
    /\ pc # "closed" => (holders = 1 /\ lock)
    /\ pc = "closed" => (holders = 0 /\ try_lock_exclusive(lock))

\* an open was refused at the lock, and after the holder's teardown the
\* next open went through
C11_Witness ==
    /\ failed_opens = 1
    /\ lastEnd = "drop"
    /\ opens = 2
    /\ pc = "open"
    /\ lock


\* C12: Drop for Log appends the checksum of the active hint file before it
\* releases the lock: in every state where the lock is free after an orderly
\* teardown, the hint file of the segment that was active is finalized and
\* hints on it is present.
C12_TeardownOrder ==
    (~lock /\ lastEnd = "drop") =>
        /\ IsSome(hints(lastActive))
        /\ Trailer(hintFiles[lastActive])
              = write_u32(xxhash32(Payload(hintFiles[lastActive])))

\* the same, with what hints then yields: the hints of the session's writes
C12_YieldsLiveHints ==
    (~lock /\ lastEnd = "drop") =>
        /\ IsSome(hints(lastActive))
        /\ HintsCollect(hints(lastActive).val) = live[lastActive]

\* a session that wrote two entries was torn down and the lock is free
C12_Witness ==
    /\ ~lock
    /\ lastEnd = "drop"
    /\ pc = "closed"
    /\ Len(live[lastActive]) = 2
    /\ IsSome(hints(lastActive))
    /\ Len(HintsCollect(hints(lastActive).val)) = 2


\* the segment left by the earlier session ends in a partial record
TornTail(id) == Undecodable \in Range(DecodeEntries(dataFiles[id]))

\* the hints of the records of a data file that decode, in order
PrefixHints(id) ==
    HintsFor(SelectSeq(DecodeEntries(dataFiles[id]), LAMBDA x : x # Undecodable))

\* C13: a data file that ends in a partially written record is replayed
\* without a fatal error: rebuilding its hints yields the hints of the
\* longest prefix of records that decode, and recovery completes.
C13_TornTailTolerated ==
    /\ lastEnd # "abort"
    /\ IsSome(lastRebuild) =>
          /\ ~Rebuild.panicked
          /\ Rebuild.yielded = PrefixHints(Rebuild.file_id)

\* what does hold: a rebuild that ended without a panic ran on a data file
\* that has no partial record
C13_OnlyWholeFilesRebuild ==
    (IsSome(lastRebuild) /\ ~Rebuild.panicked) => ~TornTail(Rebuild.file_id)


\* what an iterator over a data file has to yield: each entry the file held
\* when entries() was called, at the sum of the sizes of those before it
SnapshotOf(es) == [i \in 1..Len(es) |-> [entry_pos |-> OffsetOf(es, i), entry |-> es[i]]]

\* C14: an Entries iterator yields the entries its data file held when
\* entries() was called and no entry appended later, at offsets that start
\* at 0 and add up the encoded sizes, and it ends after as many steps.
C14_ReadSnapshot ==
    reader # None =>
        /\ ~reader.panicked
        /\ Len(reader.yielded) <= Len(reader.atCall)
        /\ reader.yielded = [i \in 1..Len(reader.yielded) |-> SnapshotOf(reader.atCall)[i]]
        /\ reader.done => reader.yielded = SnapshotOf(reader.atCall)

\* C14 holds for every iterator in a run without a reused segment id
C14_WithoutCollision ==
    (reader # None /\ ~collided) =>
        /\ ~reader.panicked
        /\ Len(reader.yielded) <= Len(reader.atCall)
        /\ reader.yielded = [i \in 1..Len(reader.yielded) |-> SnapshotOf(reader.atCall)[i]]
        /\ reader.done => reader.yielded = SnapshotOf(reader.atCall)


\* C15: with sync-on-write, whenever write_entry has returned every byte of
\* the active data file is on stable storage, and so is every byte of each
\* segment a rotation has sealed.
C15_SyncOnWrite ==
    sync => \A id \in DOMAIN dataFiles : synced[id] = Len(dataFiles[id])

\* C15 at the step: a write_entry with sync set returns with the active data
\* file synced to its end, and the segment it sealed synced to its end
C15_SyncedAtReturn ==
    [][(WriteStep /\ sync) =>
         /\ synced'[current_file_id'] = Len(dataFiles'[current_file_id'])
         /\ synced'[current_file_id] = Len(dataFiles'[current_file_id])]_vars

\* a session with sync set has written, rotated at a later second, and
\* written again
C15_Witness ==
    /\ sync /\ pc = "open" /\ ackedAtOpen = 0 /\ Len(acked) = 2
    /\ acked[1].ret.file_id # current_file_id
    /\ Len(dataFiles[acked[1].ret.file_id]) > 0
    /\ synced[current_file_id] > 0


\* C16: a rebuild in progress is the only one on its segment (the recovery
\* loop is at that segment and does not come to it again), and its segment
\* is not the one that is active for appends.
C16_OneRebuildPerSegment ==
    rh # None =>
        /\ todo # << >> /\ rh.file_id = Head(todo)
        /\ rh.file_id \notin Range(Tail(todo))
        /\ rh.file_id # current_file_id

\* the part of C16 that holds: the recovery loop has one rebuild in progress
\* at a time, on a segment it visits once
C16_OneAtATime ==
    rh # None =>
        /\ todo # << >> /\ rh.file_id = Head(todo)
        /\ rh.file_id \notin Range(Tail(todo))

\* a rebuild writes the active segment's hint file only after an open that
\* took the id of a segment found in the directory
C16_WithoutCollision == (rh # None /\ ~collided) => rh.file_id # current_file_id


\* the hint bytes write_entry derives for the entries of a data file
HintsOfData(id) == HintBytesOf(HintsFor(DecodeEntries(dataFiles[id])))

\* the active hint file: one hint per entry of the data file, no checksum,
\* and the running hasher is the checksum of these bytes
ActiveShape ==
    pc \in {"open", "unwinding"} =>
        /\ ~TornTail(current_file_id)
        /\ hintFiles[current_file_id] = HintsOfData(current_file_id)
        /\ hasher = xxhash32(hintFiles[current_file_id])

\* a sealed or closed hint file: one hint per entry, then one checksum
SealedShape ==
    \A id \in Sealed :
        /\ ~TornTail(id)
        /\ hintFiles[id] = HintsOfData(id) \o write_u32(xxhash32(HintsOfData(id)))

\* the checksum is the last write to a sealed or closed hint file
SealedHintsKept == \A id \in Sealed : hintFiles'[id] = hintFiles[id]

\* C17: through open, write_entry, rotation, drop and reopen the active hint
\* file holds one hint per data entry and no checksum, with the hasher at the
\* checksum of its bytes; a sealed or closed hint file holds its hints and
\* one checksum, and is not written again.
C17_HintFileShape ==
    /\ [](ActiveShape /\ SealedShape)
    /\ [][SealedHintsKept]_vars

\* the shape of the files in every state
C17_Shape == ActiveShape /\ SealedShape

\* sealed and closed hint files are kept unless a segment id is taken again
C17_KeptWithoutCollision == [][~collided' => SealedHintsKept]_vars

\* a segment sealed by rotation, one closed by drop and an active one with
\* hints are on disk
C17_Reached ==
    /\ pc = "open" /\ opens = 2 /\ ~collided
    /\ hintFiles[current_file_id] # << >>
    /\ \E id \in Sealed : Len(hintFiles[id]) > 4


\* what a write_entry step does when it stays in the active segment
AppendsInPlace ==
    /\ current_file_id' = current_file_id
    /\ dataFiles'[current_file_id] = dataFiles[current_file_id] \o EntryBytes(Written)
    /\ acked'[Len(acked')].ret =
         [file_id |-> current_file_id, pos |-> Len(dataFiles[current_file_id])]

\* what a write_entry step does when it rotates
AppendsToNewSegment ==
    /\ current_file_id' = now
    /\ dataFiles'[now] = EntryBytes(Written)
    /\ acked'[Len(acked')].ret = [file_id |-> now, pos |-> 0]

\* a data file is within the threshold, or it holds one entry that is larger
WithinThreshold ==
    \A id \in DOMAIN dataFiles :
        \/ Len(dataFiles[id]) <= DEFAULT_SIZE_THRESHOLD
        \/ Len(DecodeEntries(dataFiles[id])) = 1 /\ ~TornTail(id)

\* C18: write_entry rotates exactly when the position of the active data
\* file plus the size of the entry is greater than the threshold, and not
\* when they are equal; so a data file is never longer than the threshold
\* unless it holds a single entry that is longer by itself.
C18_SizeBound ==
    /\ []WithinThreshold
    /\ [][WriteStep =>
            IF Len(dataFiles[current_file_id]) + EntrySize(Written) > DEFAULT_SIZE_THRESHOLD
            THEN AppendsToNewSegment
            ELSE AppendsInPlace]_vars

\* two entries have filled the active data file exactly to the threshold
C18_Witness ==
    /\ pc = "open" /\ ackedAtOpen = 0 /\ Len(acked) = 2
    /\ Len(dataFiles[current_file_id]) = DEFAULT_SIZE_THRESHOLD
    /\ Len(DecodeEntries(dataFiles[current_file_id])) = 2

\* an entry larger than the threshold is alone in a segment that followed a
\* segment with an entry
C18_WitnessOversize ==
    /\ pc = "open" /\ Len(acked) = 2
    /\ Len(dataFiles[current_file_id]) > DEFAULT_SIZE_THRESHOLD
    /\ acked[1].ret.file_id # current_file_id
    /\ Len(dataFiles[acked[1].ret.file_id]) > 0


\* an open by a second process that ends at the held lock
FailedOpenStep == failed_opens' = failed_opens + 1

\* C19: an open that fails at the held lock creates no data file and no hint
\* file, changes no file of the directory, and leaves the Log that holds the
\* lock, and the lock, as they were.
C19_FailedOpenChangesNothing ==
    [][FailedOpenStep =>
         /\ DOMAIN dataFiles' = DOMAIN dataFiles
         /\ DOMAIN hintFiles' = DOMAIN hintFiles
         /\ UNCHANGED << diskVars, pc, logVars, cursorVars, lock, holders >>]_vars

\* an open has failed at a lock whose holder had written to its segment
C19_Witness ==
    /\ failed_opens = 1 /\ pc = "open" /\ lock /\ holders = 1
    /\ Len(dataFiles[current_file_id]) > 0

=============================================================================
